---- MODULE Spec2Model ----
(***************************************************************************)
(* Model of the PDF ingestion / retrieval backend.                         *)
(*                                                                         *)
(*   src/pinecone.js       chunkText, getEmbedding,                        *)
(*                         processPdfAndStoreInPinecone                    *)
(*   src/unnamed/part_000  the express server: POST /upload/pdf and        *)
(*                         POST /query                                     *)
(*                                                                         *)
(* Three specifications are defined over the same variables:               *)
(*   SpecChunk   runs the loop of chunkText one iteration at a time on     *)
(*               arbitrary (text, chunkSize, overlap)                      *)
(*   SpecServer  runs the request handlers of the express server,          *)
(*               interleaved at their await points                         *)
(*   Spec        runs the server together with calls of the pinecone.js    *)
(*               pipeline                                                  *)
(***************************************************************************)
EXTENDS Integers, Sequences, FiniteSets, TLC

\* ------------------------------------------------------------------ bounds
MaxLen  == 3     \* longest text drawn over Alphabet
MaxSize == 4     \* largest chunkSize / overlap passed to chunkText
MaxIter == 12    \* iterations of the chunkText loop that are followed
MaxInv  == 2     \* handler / pipeline invocations in one behaviour
MaxTime == 1     \* values Date.now() takes

\* ------------------------------------------------------- program constants
DefaultChunkSize == 500
DefaultOverlap   == 50
BatchSize        == 100
TopK             == 5

Min(a, b) == IF a < b THEN a ELSE b
Max(a, b) == IF a > b THEN a ELSE b

\* ceil(a / b) for b > 0 (\div rounds towards minus infinity)
CeilDiv(a, b) == -((-a) \div b)

\* ------------------------------------------------------------ text chunker
Alphabet == {"A", "B"}
ExampleText == <<"A", "B", "C", "D", "E", "F", "G", "H", "I", "J">>
Texts == UNION {[1..n -> Alphabet] : n \in 0..MaxLen} \cup {ExampleText}

\* String.prototype.slice(a, b): a negative index counts from the end, both
\* ends are clamped to [0, length], an empty range gives "".
SliceIndex(len, k) == IF k < 0 THEN Max(len + k, 0) ELSE Min(k, len)
slice(text, a, b) ==
    SubSeq(text, SliceIndex(Len(text), a) + 1, SliceIndex(Len(text), b))

\* the loop of chunkText: condition, body, increment
LoopCond(text, i) == i < Len(text)
NextIndex_skip(i, chunkSize, overlap) == i + chunkSize
NextIndex(i, chunkSize, overlap) == i + chunkSize - overlap
PushChunk_short(chunks, text, i, chunkSize) ==
    Append(chunks, slice(text, i, i + chunkSize - 1))
PushChunk(chunks, text, i, chunkSize) ==
    Append(chunks, slice(text, i, i + chunkSize))

RECURSIVE chunkLoop(_, _, _, _, _)
chunkLoop(text, chunkSize, overlap, i, chunks) ==
    IF LoopCond(text, i)
    THEN chunkLoop(text, chunkSize, overlap,
                   NextIndex(i, chunkSize, overlap),
                   PushChunk(chunks, text, i, chunkSize))
    ELSE chunks

\* chunkText(text) as processPdfAndStoreInPinecone calls it: default arguments
chunkText(text) == chunkLoop(text, DefaultChunkSize, DefaultOverlap, 0, <<>>)

\* ------------------------------------------------- server and pipeline state
HardcodedNamespace == 0      \* "6763088c-17a1-433d-9f7f-066974723312"
DefaultNamespace   == -1     \* index.upsert without a namespace
NoNamespace        == -2     \* `namespace` not assigned yet

Invs == 1..MaxInv

\* values uuidv4() returns.  The hardcoded query namespace is a version 4
\* UUID too: one that an upload of an earlier run of the server returned.
UUIDs == 0..MaxInv

IndexNames == {"pdf-chat", "chatwithpdffrag"}
StoreKeys == IndexNames \X (UUIDs \cup {DefaultNamespace})

\* what the PDF loader and the text splitter make of an uploaded document:
\* rawDocs.length pages and docs.length chunks (no batch, one full batch, a
\* full batch and a partial one)
Pdfs == { [pages |-> 0, chunks |-> 0],
          [pages |-> 3, chunks |-> 100],
          [pages |-> 4, chunks |-> 101] }

\* data.text of pdfParse: no chunk, and one chunk under the default arguments
PdfTextLens == {0, 450}
PdfText(n) == [j \in 1..n |-> "x"]

\* req.body.question: absent, null, empty, or a question
Undefined == "<undefined>"
Null == "<null>"
Questions == {Undefined, Null, "", "what is this?"}

Falsy_onlyUndefined(v) == v = Undefined
Falsy(v) == v \in {Undefined, Null, ""}

\* process.env: the index name unset or set, in production or development
Envs == { [PINECONE_INDEX_NAME |-> "", NODE_ENV |-> "production"],
          [PINECONE_INDEX_NAME |-> "chatwithpdffrag", NODE_ENV |-> "development"] }

\* records an earlier run of the server left under the hardcoded namespace
EarlierRecords ==
    { [id |-> [src |-> "doc", a |-> 0, b |-> d], inv |-> 0] : d \in 0..TopK }

VARIABLES cpc, cText, cSize, cOverlap, ci, cChunks

VARIABLES inv, store, files, minted, env

chunkVars == <<cpc, cText, cSize, cOverlap, ci, cChunks>>

serverVars == <<inv, store, files, minted, env>>
vars == <<cpc, cText, cSize, cOverlap, ci, cChunks, inv, store, files, minted, env>>

NoResponse == [status |-> 0, body |-> <<>>]

NewInv ==
    [ kind |-> "none", pc |-> "idle", hasFile |-> FALSE,
      pages |-> 0, docs |-> 0, i |-> 0,
      index |-> "", namespace |-> NoNamespace, sessionNamespace |-> NoNamespace,
      batchLog |-> <<>>, vectors |-> {}, lastTime |-> 0,
      question |-> Undefined, calls |-> <<>>, results |-> {}, following |-> {},
      error |-> "none", unlinkThrew |-> FALSE,
      res |-> NoResponse, escaped |-> "none" ]

\* the server starts on an index that is empty, or on one that holds the
\* records of the earlier upload
ServerInit ==
    /\ inv = [k \in Invs |-> NewInv]
    /\ env \in Envs
    /\ store = [key \in StoreKeys |->
                   IF /\ env.NODE_ENV = "development"
                      /\ key = <<env.PINECONE_INDEX_NAME, HardcodedNamespace>>
                   THEN EarlierRecords ELSE {}]
    /\ files = {}
    /\ minted = {HardcodedNamespace}

\* requests are numbered in the order they arrive
IsNext(k) == inv[k].pc = "idle" /\ \A j \in Invs : j < k => inv[j].pc # "idle"

\* process.env.PINECONE_INDEX_NAME || "pdf-chat"
IndexName == IF env.PINECONE_INDEX_NAME = "" THEN "pdf-chat"
             ELSE env.PINECONE_INDEX_NAME

\* uuidv4(): a value it has not returned before.  The values are
\* interchangeable, so the least unused one stands for them.
uuidv4 == { u \in UUIDs \ minted : \A w \in UUIDs \ minted : u <= w }

\* upsert is by record id: a record with the same id is overwritten
Upsert(S, recs) == {r \in S : \A n \in recs : n.id # r.id} \cup recs

\* ------------------------------------------- chunkText, one iteration a step
ChunkInit ==
    /\ cpc = "loop"
    /\ cText \in Texts
    /\ cSize \in 0..MaxSize
    /\ cOverlap \in -1..MaxSize
    /\ ci = 0
    /\ cChunks = <<>>
    /\ ServerInit
    /\ env.NODE_ENV = "production"

\* one iteration of the for loop
ChunkIterate ==
    /\ UNCHANGED serverVars
    /\ cpc = "loop"
    /\ LoopCond(cText, ci)
    /\ Len(cChunks) < MaxIter
    /\ cChunks' = PushChunk(cChunks, cText, ci, cSize)
    /\ ci' = NextIndex(ci, cSize, cOverlap)
    /\ UNCHANGED <<cpc, cText, cSize, cOverlap>>

\* the loop condition is false: return chunks
ChunkReturn ==
    /\ UNCHANGED serverVars
    /\ cpc = "loop"
    /\ ~LoopCond(cText, ci)
    /\ cpc' = "returned"
    /\ UNCHANGED <<cText, cSize, cOverlap, ci, cChunks>>

ChunkNext == ChunkIterate \/ ChunkReturn

SpecChunk == ChunkInit /\ [][ChunkNext]_vars

\* ----- rejoining: first chunk whole, later chunks without their overlap
RECURSIVE Rejoin(_, _)
Rejoin(chunks, overlap) ==
    IF Len(chunks) = 0 THEN <<>>
    ELSE IF Len(chunks) = 1 THEN chunks[1]
    ELSE Rejoin(SubSeq(chunks, 1, Len(chunks) - 1), overlap)
         \o SubSeq(chunks[Len(chunks)], overlap + 1, Len(chunks[Len(chunks)]))

C6_Rejoin ==
    (cpc = "returned" /\ 0 <= cOverlap /\ cOverlap < cSize) =>
        Rejoin(cChunks, cOverlap) = cText

C6_Witness ==
    /\ cpc = "returned"
    /\ cOverlap > 0
    /\ cOverlap < cSize
    /\ Len(cChunks) >= 3
    /\ Len(cChunks[Len(cChunks)]) < cOverlap

\* C7: a call with overlap >= size fails with a ConfigurationError: it pushes
\* no chunk and does not return normally.
C7_ConfigurationError ==
    cOverlap >= cSize => (cChunks = <<>> /\ cpc # "returned")

\* ---------------------------------------------------------- POST /upload/pdf
\* the 500 body; JSON drops `stack` when it is undefined
UploadErrorBody(err) ==
    IF env.NODE_ENV = "development"
    THEN [error |-> "Failed to process PDF", details |-> err, stack |-> err]
    ELSE [error |-> "Failed to process PDF", details |-> err]

\* catch (error): unlinkSync(req.file.path), then the 500 response.  When
\* unlinkSync throws inside the catch block the exception leaves the handler
\* and no response is sent by it.
UploadCatch(k, r, err) ==
    \E unlinkOk \in BOOLEAN :
        IF unlinkOk
        THEN /\ files' = files \ {k}
             /\ inv' = [inv EXCEPT ![k] = [r EXCEPT
                            !.pc = "done", !.error = err,
                            !.res = [status |-> 500,
                                     body |-> UploadErrorBody(err)]]]
        ELSE /\ files' = files
             /\ inv' = [inv EXCEPT ![k] = [r EXCEPT
                            !.pc = "done", !.error = err,
                            !.unlinkThrew = TRUE, !.escaped = "unlink"]]

\* after the batch loop: unlinkSync(filePath), then the success response
UploadFinish(k, r) ==
    \E unlinkOk \in BOOLEAN :
        IF unlinkOk
        THEN /\ files' = files \ {k}
             /\ inv' = [inv EXCEPT ![k] = [r EXCEPT
                            !.pc = "done",
                            !.res = [status |-> 200,
                                     body |-> [message |-> "PDF processed and stored successfully",
                                               namespace |-> r.namespace,
                                               chunkCount |-> r.docs,
                                               originalPageCount |-> r.pages]]]]
        ELSE UploadCatch(k, [r EXCEPT !.unlinkThrew = TRUE], "unlink")

\* docs.slice(i, i + batchSize) as the records addDocuments stores: one
\* record per document, under an id generated for it
BatchEnd_short(i, n) == Min(i + BatchSize - 1, n)
BatchEnd(i, n) == Min(i + BatchSize, n)
BatchRecords(k, i, n) ==
    { [id |-> [src |-> "doc", a |-> k, b |-> d], inv |-> k] :
          d \in i..(BatchEnd(i, n) - 1) }

\* enter or continue the batch loop: next addDocuments, or finish
UploadLoop(k, r) ==
    IF r.i < r.docs
    THEN /\ inv' = [inv EXCEPT ![k] = [r EXCEPT !.pc = "batch"]]
         /\ files' = files
    ELSE UploadFinish(k, r)

\* the request arrives; multer has stored the uploaded file, if any
UploadReceive(k) ==
    /\ IsNext(k)
    /\ \E hasFile \in BOOLEAN :
        IF ~hasFile
        THEN /\ inv' = [inv EXCEPT ![k] = [@ EXCEPT
                            !.kind = "upload", !.pc = "done",
                            !.res = [status |-> 400,
                                     body |-> [error |-> "No file uploaded"]]]]
             /\ files' = files
        ELSE /\ inv' = [inv EXCEPT ![k] = [@ EXCEPT
                            !.kind = "upload", !.hasFile = TRUE, !.pc = "load"]]
             /\ files' = files \cup {k}
    /\ UNCHANGED <<store, minted, env>>
    /\ UNCHANGED chunkVars

\* await loader.load()
UploadLoaded(k) ==
    /\ inv[k].kind = "upload" /\ inv[k].pc = "load"
    /\ \/ \E pdf \in Pdfs :
            /\ inv' = [inv EXCEPT ![k] = [@ EXCEPT
                           !.pages = pdf.pages, !.docs = pdf.chunks,
                           !.pc = "split"]]
            /\ files' = files
       \/ UploadCatch(k, inv[k], "parse")
    /\ UNCHANGED <<store, minted, env>>
    /\ UNCHANGED chunkVars

\* await textSplitter.splitDocuments(rawDocs); then the index, the namespace,
\* the session and the call of PineconeStore.fromExistingIndex
UploadSplit(k) ==
    /\ inv[k].kind = "upload" /\ inv[k].pc = "split"
    /\ \/ \E u \in uuidv4 :
            /\ inv' = [inv EXCEPT ![k] = [@ EXCEPT
                           !.index = IndexName, !.namespace = u,
                           !.sessionNamespace = u, !.pc = "connect"]]
            /\ minted' = minted \cup {u}
            /\ files' = files
       \/ /\ UploadCatch(k, inv[k], "chunk")
          /\ minted' = minted
    /\ UNCHANGED <<store, env>>
    /\ UNCHANGED chunkVars

\* await PineconeStore.fromExistingIndex(...)
UploadConnected(k) ==
    /\ inv[k].kind = "upload" /\ inv[k].pc = "connect"
    /\ \/ UploadLoop(k, inv[k])
       \/ UploadCatch(k, inv[k], "connect")
    /\ UNCHANGED <<store, minted, env>>
    /\ UNCHANGED chunkVars

\* await vectorStore.addDocuments(batch); i += batchSize
UploadBatchDone(k) ==
    /\ inv[k].kind = "upload" /\ inv[k].pc = "batch"
    /\ \/ LET r == inv[k]
              key == <<r.index, r.namespace>>
          IN /\ store' = [store EXCEPT
                             ![key] = Upsert(@, BatchRecords(k, r.i, r.docs))]
             /\ UploadLoop(k, [r EXCEPT !.batchLog = Append(@, r.i),
                                        !.i = r.i + BatchSize])
       \/ /\ UploadCatch(k, inv[k], "upsert")
          /\ store' = store
    /\ UNCHANGED <<minted, env>>
    /\ UNCHANGED chunkVars

\* --------------------------------------------------------------- POST /query
QueryErrorBody(err) ==
    IF env.NODE_ENV = "development"
    THEN [error |-> "Failed to process query", details |-> err]
    ELSE [error |-> "Failed to process query"]

QueryCatch(k, err) ==
    inv' = [inv EXCEPT ![k] = [@ EXCEPT
                !.pc = "done", !.error = err,
                !.res = [status |-> 500, body |-> QueryErrorBody(err)]]]

\* similaritySearch(question, 5): the k most similar records of the
\* namespace.  Similarity is a fixed total order on the records.
Closer(x, y) ==
    \/ x.inv < y.inv
    \/ x.inv = y.inv /\ x.id.a < y.id.a
    \/ x.inv = y.inv /\ x.id.a = y.id.a /\ x.id.b < y.id.b
similaritySearch(S, topK) ==
    {r \in S : Cardinality({x \in S : Closer(x, r)}) < topK}

\* namespaces that successful uploads have returned so far
Returned ==
    { inv[j].res.body.namespace :
          j \in {u \in Invs : inv[u].kind = "upload" /\ inv[u].res.status = 200} }

\* the request arrives: namespace, question, the check of the question, then
\* the index and the call of PineconeStore.fromExistingIndex.  req.body is
\* the object express.json() has put there, with or without a question.
QueryReceive(k) ==
    /\ IsNext(k)
    /\ \E question \in Questions :
        LET r == [inv[k] EXCEPT !.kind = "query", !.question = question,
                                !.namespace = HardcodedNamespace,
                                !.following = Returned]
        IN IF Falsy(question)
           THEN inv' = [inv EXCEPT ![k] = [r EXCEPT
                            !.pc = "done",
                            !.res = [status |-> 400,
                                     body |-> [error |-> "Question is required"]]]]
           ELSE inv' = [inv EXCEPT ![k] = [r EXCEPT
                            !.index = IndexName,
                            !.calls = Append(@, "connect"),
                            !.pc = "connect"]]
    /\ UNCHANGED <<store, files, minted, env>>
    /\ UNCHANGED chunkVars

\* await PineconeStore.fromExistingIndex(...); call similaritySearch
QueryConnected(k) ==
    /\ inv[k].kind = "query" /\ inv[k].pc = "connect"
    /\ \/ inv' = [inv EXCEPT ![k] = [@ EXCEPT
                      !.calls = Append(@, "search"), !.pc = "search"]]
       \/ QueryCatch(k, "connect")
    /\ UNCHANGED <<store, files, minted, env>>
    /\ UNCHANGED chunkVars

\* await vectorStore.similaritySearch(question, 5); context and prompt; call
\* groq.chat.completions.create
QuerySearched(k) ==
    /\ inv[k].kind = "query" /\ inv[k].pc = "search"
    /\ \/ inv' = [inv EXCEPT ![k] = [@ EXCEPT
                      !.results = similaritySearch(
                                      store[<<inv[k].index, inv[k].namespace>>],
                                      TopK),
                      !.calls = Append(@, "complete"), !.pc = "complete"]]
       \/ QueryCatch(k, "search")
    /\ UNCHANGED <<store, files, minted, env>>
    /\ UNCHANGED chunkVars

\* await groq.chat.completions.create(...); the response
QueryCompleted(k) ==
    /\ inv[k].kind = "query" /\ inv[k].pc = "complete"
    /\ \/ inv' = [inv EXCEPT ![k] = [@ EXCEPT
                      !.pc = "done",
                      !.res = [status |-> 200,
                               body |-> [answer |-> "answer",
                                         sources |-> inv[k].results]]]]
       \/ QueryCatch(k, "complete")
    /\ UNCHANGED <<store, files, minted, env>>
    /\ UNCHANGED chunkVars

\* ------------------------------- processPdfAndStoreInPinecone (pinecone.js)
\* catch (err): log and rethrow
ProcessCatch(k, r, err) ==
    inv' = [inv EXCEPT ![k] = [r EXCEPT
                !.pc = "done", !.error = err, !.escaped = err]]

\* the embedding loop: next getEmbedding, or index.upsert({ vectors })
ProcessLoop(k, r) ==
    inv' = [inv EXCEPT ![k] = [r EXCEPT
                !.pc = IF r.i < r.docs THEN "embed" ELSE "upsert"]]

\* the call, on a path whose file exists or does not: readFileSync, then the
\* call of pdfParse
ProcessStart(k) ==
    /\ IsNext(k)
    /\ \E hasFile \in BOOLEAN :
        IF hasFile
        THEN /\ files' = files \cup {k}
             /\ inv' = [inv EXCEPT ![k] = [@ EXCEPT
                            !.kind = "process", !.hasFile = TRUE,
                            !.index = "chatwithpdffrag",
                            !.namespace = DefaultNamespace,
                            !.pc = "parse"]]
        ELSE /\ files' = files
             /\ ProcessCatch(k, [inv[k] EXCEPT !.kind = "process"], "read")
    /\ UNCHANGED <<store, minted, env>>
    /\ UNCHANGED chunkVars

\* await pdfParse(buffer); chunkText(text); enter the loop
ProcessParsed(k) ==
    /\ inv[k].kind = "process" /\ inv[k].pc = "parse"
    /\ \/ \E n \in PdfTextLens :
            ProcessLoop(k, [inv[k] EXCEPT !.docs = Len(chunkText(PdfText(n)))])
       \/ ProcessCatch(k, inv[k], "parse")
    /\ UNCHANGED <<store, files, minted, env>>
    /\ UNCHANGED chunkVars

\* await getEmbedding(chunks[i]); vectors.push({id: `chunk-${Date.now()}-${i}`})
ProcessEmbedded(k) ==
    /\ inv[k].kind = "process" /\ inv[k].pc = "embed"
    /\ \/ \E now \in inv[k].lastTime..MaxTime :
            LET r == inv[k]
                v == [id |-> [src |-> "chunk", a |-> now, b |-> r.i], inv |-> k]
            IN ProcessLoop(k, [r EXCEPT !.vectors = @ \cup {v},
                                        !.lastTime = now,
                                        !.i = r.i + 1])
       \/ ProcessCatch(k, inv[k], "embed")
    /\ UNCHANGED <<store, files, minted, env>>
    /\ UNCHANGED chunkVars

\* await index.upsert({ vectors })
ProcessUpserted(k) ==
    /\ inv[k].kind = "process" /\ inv[k].pc = "upsert"
    /\ \/ /\ store' = [store EXCEPT
                          ![<<inv[k].index, inv[k].namespace>>] =
                              Upsert(@, inv[k].vectors)]
          /\ inv' = [inv EXCEPT ![k] = [@ EXCEPT !.pc = "done"]]
       \/ /\ ProcessCatch(k, inv[k], "upsert")
          /\ store' = store
    /\ UNCHANGED <<files, minted, env>>
    /\ UNCHANGED chunkVars

\* the express server: requests arrive and handlers resume at their awaits
ServerNext ==
    \E k \in Invs :
        \/ UploadReceive(k)
        \/ UploadLoaded(k)
        \/ UploadSplit(k)
        \/ UploadConnected(k)
        \/ UploadBatchDone(k)
        \/ QueryReceive(k)
        \/ QueryConnected(k)
        \/ QuerySearched(k)
        \/ QueryCompleted(k)

\* calls of processPdfAndStoreInPinecone
PipelineNext ==
    \E k \in Invs :
        \/ ProcessStart(k)
        \/ ProcessParsed(k)
        \/ ProcessEmbedded(k)
        \/ ProcessUpserted(k)

Next == ServerNext \/ PipelineNext

Init == ServerInit /\ cpc = "idle" /\ cText = <<>> /\ cSize = DefaultChunkSize
        /\ cOverlap = DefaultOverlap /\ ci = 0 /\ cChunks = <<>>

\* the server together with the pinecone.js pipeline, on one vector store
Spec == Init /\ [][Next]_vars

\* the server alone
SpecServer == Init /\ [][ServerNext]_vars

\* ------------------------------------------------------------ properties
Ingestions == {k \in Invs : inv[k].kind \in {"upload", "process"}}
Uploads == {k \in Invs : inv[k].kind = "upload"}
Queries == {k \in Invs : inv[k].kind = "query"}

Called(k, call) == \E n \in 1..Len(inv[k].calls) : inv[k].calls[n] = call

\* C1: every ingestion invocation stores its records under a namespace no
\* other invocation has used: the records of a namespace, and so the records a
\* search of it returns, all come from one invocation.
C1_FreshNamespace ==
    /\ \A key \in StoreKeys : \A x, y \in store[key] : x.inv = y.inv
    /\ \A q \in Queries : \A x, y \in inv[q].results : x.inv = y.inv

\* C2: a query that follows a successful upload searches the namespace that
\* the upload minted and returned.
C2_QueryNamespace ==
    \A q \in Queries :
        (Called(q, "search") /\ inv[q].following # {}) =>
            inv[q].namespace \in inv[q].following

\* C3: once an ingestion invocation that received a file has finished, in
\* whichever stage, its temporary file no longer exists (a deletion that the
\* file system refused is not held against the invocation).
C3_FileReleased ==
    \A k \in Ingestions :
        (inv[k].hasFile /\ inv[k].pc = "done" /\ ~inv[k].unlinkThrew) =>
            k \notin files

\* C4: a query without a question (absent or empty) gets a 400 and makes no
\* remote call while it is handled.
NoQuestion == {Undefined, Null, ""}
C4_MissingQuestion ==
    \A q \in Queries :
        inv[q].question \in NoQuestion =>
            /\ inv[q].res.status = 400
            /\ inv[q].calls = <<>>
            /\ inv[q].pc = "done"

C4_Witness ==
    \E q \in Queries :
        /\ inv[q].question = ""
        /\ inv[q].res.status = 400
        /\ \E u \in Uploads : inv[u].pc = "batch"

\* C8: when deleting the temporary file fails during an upload, the request
\* still gets its one response: the success response if all stages succeeded,
\* the 500 carrying the stage's error otherwise.
C8_CleanupFailureHidden ==
    \A k \in Uploads :
        (inv[k].pc = "done" /\ inv[k].unlinkThrew) =>
            IF inv[k].error = "unlink"
            THEN inv[k].res.status = 200
            ELSE /\ inv[k].res.status = 500
                 /\ inv[k].res.body.details = inv[k].error

\* C9: when an upsert batch fails after earlier batches succeeded, the
\* response reports the number of chunks stored, equal to the number of
\* records in the namespace, and the number attempted.
ErrorFields == {"error", "details", "stack"}
C9_PartialReport ==
    \A k \in Uploads :
        (inv[k].pc = "done" /\ inv[k].error = "upsert"
                            /\ Len(inv[k].batchLog) > 0) =>
            LET body == inv[k].res.body
                stored == Cardinality(store[<<inv[k].index, inv[k].namespace>>])
            IN /\ inv[k].res.status # 0
               /\ \E f \in DOMAIN body \ ErrorFields : body[f] = stored
               /\ \E f \in DOMAIN body \ ErrorFields : body[f] = inv[k].docs

\* C10: the success response of an upload comes after every batch has
\* completed, in batch order, and its chunkCount is the number of records
\* stored under the namespace it returns.
C10_SuccessAfterBatches ==
    \A k \in Uploads :
        inv[k].res.status = 200 =>
            LET body == inv[k].res.body
            IN /\ inv[k].batchLog =
                      [j \in 1..CeilDiv(inv[k].docs, BatchSize) |->
                           (j - 1) * BatchSize]
               /\ body.chunkCount = inv[k].docs
               /\ body.chunkCount =
                      Cardinality(store[<<inv[k].index, body.namespace>>])

C10_Witness ==
    \E k \in Uploads :
        /\ inv[k].res.status = 200
        /\ inv[k].res.body.chunkCount = 101
        /\ Len(inv[k].batchLog) = 2
        /\ \E j \in Uploads \ {k} : inv[j].res.status = 200

====
